---- MODULE Spec2Model ----
(***************************************************************************)
(* Model of the Minesweeper knowledge-base agent of                        *)
(* src/minesweeper/minesweeper.py: the classes Sentence and MinesweeperAI, *)
(* driven by reveals of a ground-truth board (class Minesweeper).          *)
(***************************************************************************)
EXTENDS Integers, FiniteSets, Sequences, TLC

\* Board bounds (MinesweeperAI.__init__ takes height and width).
Height == 2
Width == 3

\* Bound on the number of add_knowledge calls in one game.
MaxReveals == 5

\* Bound on the number of add_knowledge calls in a game with hints.
MaxHintReveals == 2

\* Bound on the number of add_knowledge calls in a game whose reported
\* counts are arbitrary.
MaxAnyReveals == 2

\* Bound on the number of add_knowledge calls in a game whose subset
\* inference is followed iteration by iteration.
MaxStepReveals == 3

\* Bound on the length of the knowledge base in such a game: an iteration
\* of the loops is taken only while the list is no longer than this.
MaxSentences == 20

\* Bound on the number of externally injected hints (public mark_mine /
\* mark_safe calls) in the specification SpecHints.
MaxHints == 2

VARIABLES
    board,       \* Minesweeper.mines: the ground-truth set of mine cells
    moves_made,  \* MinesweeperAI.moves_made
    mines,       \* MinesweeperAI.mines
    safes,       \* MinesweeperAI.safes
    knowledge,   \* MinesweeperAI.knowledge: a list of Sentences
    retained,    \* the list bound to self.knowledge at line 249 of the last add_knowledge
    call,        \* the last public call: its name, arguments, result, raised error
    reveals,     \* number of add_knowledge calls so far
    hints,       \* number of public mark_mine / mark_safe calls so far
    loop         \* position [i, j] of the subset-inference loops of the running
                 \* add_knowledge (lines 251-252), [0, 0] when none is running

vars == <<board, moves_made, mines, safes, knowledge, retained, call, reveals, hints, loop>>

Cells == (0 .. Height - 1) \X (0 .. Width - 1)

\* Python's None, as the result of a call that returns nothing.
None == <<>>

----------------------------------------------------------------------------
\* class Minesweeper

is_mine(b, cell) == cell \in b

\* The in-bounds cells within one row and column of cell, cell excluded
\* (the loops of nearby_mines and of add_knowledge step 3).
Neighbors(cell) ==
    { n \in Cells :
        /\ n # cell
        /\ n[1] \in (cell[1] - 1) .. (cell[1] + 1)
        /\ n[2] \in (cell[2] - 1) .. (cell[2] + 1) }

nearby_mines(b, cell) == Cardinality({ n \in Neighbors(cell) : is_mine(b, n) })

----------------------------------------------------------------------------
\* class Sentence

Sentence(cells, count) == [cells |-> cells, count |-> count]

known_mines(s) == IF Cardinality(s.cells) = s.count THEN s.cells ELSE {}

\* known_safes testing the number of cells instead of the count.
known_safes_cells(s) == IF Cardinality(s.cells) = 0 THEN s.cells ELSE {}

known_safes(s) == IF s.count = 0 THEN s.cells ELSE {}

\* Sentence.mark_mine without the decrement of count.
Sentence_mark_mine_keep_count(s, cell) ==
    IF cell \in s.cells
    THEN [cells |-> s.cells \ {cell}, count |-> s.count]
    ELSE s

\* Sentence.mark_mine: the Sentence after the call (the update happens
\* before the check that raises).
Sentence_mark_mine(s, cell) ==
    IF cell \in s.cells
    THEN [cells |-> s.cells \ {cell}, count |-> s.count - 1]
    ELSE s

\* Sentence.mark_mine raising as soon as the count is not positive.
Sentence_mark_mine_raises_at_zero(s, cell) == Sentence_mark_mine(s, cell).count <= 0

\* Sentence.mark_mine raises ValueError exactly when the count is negative
\* after the update, whether or not the cell was in the Sentence.
Sentence_mark_mine_raises(s, cell) == Sentence_mark_mine(s, cell).count < 0

Sentence_mark_safe(s, cell) ==
    IF cell \in s.cells
    THEN [cells |-> s.cells \ {cell}, count |-> s.count]
    ELSE s

----------------------------------------------------------------------------
\* class MinesweeperAI.  An agent state is a record st with the fields
\* moves_made, mines, safes, knowledge and err (an exception is propagating).

AIState(mm, mi, sa, kb) ==
    [moves_made |-> mm, mines |-> mi, safes |-> sa, knowledge |-> kb, err |-> FALSE]

Min(S) == CHOOSE x \in S : \A y \in S : x <= y

\* MinesweeperAI.mark_mine: adds the cell to mines, then updates the
\* Sentences in list order; the first Sentence whose mark_mine raises ends
\* the loop, leaving the later Sentences untouched.
AI_mark_mine(st, cell) ==
    LET kb   == st.knowledge
        bad  == { i \in 1 .. Len(kb) : Sentence_mark_mine_raises(kb[i], cell) }
        stop == IF bad = {} THEN Len(kb) ELSE Min(bad)
    IN  [st EXCEPT !.mines = @ \cup {cell},
                   !.knowledge = [i \in 1 .. Len(kb) |->
                                    IF i <= stop THEN Sentence_mark_mine(kb[i], cell)
                                    ELSE kb[i]],
                   !.err = (bad # {})]

\* mark_safe that withdraws the cell from mines.
AI_mark_safe_unmine(st, cell) ==
    [st EXCEPT !.safes = @ \cup {cell},
               !.mines = @ \ {cell},
               !.knowledge = [i \in 1 .. Len(st.knowledge) |->
                                Sentence_mark_safe(st.knowledge[i], cell)]]

\* MinesweeperAI.mark_safe
AI_mark_safe(st, cell) ==
    [st EXCEPT !.safes = @ \cup {cell},
               !.knowledge = [i \in 1 .. Len(st.knowledge) |->
                                Sentence_mark_safe(st.knowledge[i], cell)]]

\* for mine in sentence.known_mines().copy(): self.mark_mine(mine)
\* The iteration order of a Python set is not fixed by the language, and it
\* matters when a mark_mine raises part-way: F is the set of the possible
\* (state, cells still to visit) pairs, the result the set of final states.
RECURSIVE MarkMinesFrom(_)
MarkMinesFrom(F) ==
    IF \A f \in F : f.rem = {} \/ f.st.err
    THEN { f.st : f \in F }
    ELSE MarkMinesFrom(UNION {
            IF f.rem = {} \/ f.st.err
            THEN {f}
            ELSE { [st |-> AI_mark_mine(f.st, c), rem |-> f.rem \ {c}] : c \in f.rem }
            : f \in F })

MarkMinesAll(st, cells) == MarkMinesFrom({[st |-> st, rem |-> cells]})

\* for safe in sentence.known_safes().copy(): self.mark_safe(safe)
\* mark_safe never raises and its effects (a set union, set differences)
\* do not depend on the order of the cells.
RECURSIVE MarkSafesAll(_, _)
MarkSafesAll(st, cells) ==
    IF cells = {} THEN st
    ELSE LET c == CHOOSE x \in cells : TRUE
         IN  MarkSafesAll(AI_mark_safe(st, c), cells \ {c})

\* The body of the step-4 loop for the Sentence at position i of the copied
\* list (the copy shares the Sentence objects, so the Sentence is read in
\* its current state): the set of states it can end in.
MarkSentence(st, i) ==
    { IF s1.err THEN s1 ELSE MarkSafesAll(s1, known_safes(s1.knowledge[i]))
      : s1 \in MarkMinesAll(st, known_mines(st.knowledge[i])) }

\* Step 4: for sentence in self.knowledge.copy(): ... ; S is the set of
\* states possible before the Sentence at position i, n the list's length.
RECURSIVE TrivialPass(_, _, _)
TrivialPass(S, i, n) ==
    IF i > n THEN S
    ELSE TrivialPass(UNION { IF st.err THEN {st} ELSE MarkSentence(st, i) : st \in S },
                     i + 1, n)

\* The cleanup without line 237, which leaves the Sentences without cells
\* and a zero count in the list.
Cleanup_keep_empty(kb) ==
    SelectSeq(kb, LAMBDA s : s.count > 0 \/ s.count = 0)

\* Lines 237-242: drop the Sentences without cells, then keep those with
\* count > 0 or (count == 0 and cells).
Cleanup(kb) ==
    LET nonEmpty == SelectSeq(kb, LAMBDA s : s.cells # {})
    IN  SelectSeq(nonEmpty, LAMBDA s : s.count > 0 \/ (s.count = 0 /\ s.cells # {}))

InList(s, kb) == \E k \in 1 .. Len(kb) : kb[k] = s

\* Lines 245-249: keep the first occurrence of each Sentence (__eq__
\* compares cells and count).
RECURSIVE DedupFrom(_, _, _)
DedupFrom(kb, i, new_knowledge) ==
    IF i > Len(kb) THEN new_knowledge
    ELSE DedupFrom(kb, i + 1,
                   IF InList(kb[i], new_knowledge) THEN new_knowledge
                   ELSE Append(new_knowledge, kb[i]))

Dedup(kb) == DedupFrom(kb, 1, <<>>)

\* The candidate built without the issubset test of line 255.
InferPair_no_subset(kb, sentence1, sentence2) ==
    LET inferred_cells == sentence2.cells \ sentence1.cells
        inferred_count == sentence2.count - sentence1.count
        new_sentence   == Sentence(inferred_cells, inferred_count)
    IN  IF /\ sentence1 # sentence2
           /\ inferred_cells # {}
           /\ inferred_count >= 0
           /\ ~InList(new_sentence, kb)
        THEN Append(kb, new_sentence)
        ELSE kb

\* The candidate kept only when its count is positive (> for >= at line 258).
InferPair_positive_count(kb, sentence1, sentence2) ==
    LET inferred_cells == sentence2.cells \ sentence1.cells
        inferred_count == sentence2.count - sentence1.count
        new_sentence   == Sentence(inferred_cells, inferred_count)
    IN  IF /\ sentence1 # sentence2
           /\ sentence1.cells \subseteq sentence2.cells
           /\ inferred_cells # {}
           /\ inferred_count > 0
           /\ ~InList(new_sentence, kb)
        THEN Append(kb, new_sentence)
        ELSE kb

\* The candidate appended without the membership test of line 260.
InferPair_no_membership(kb, sentence1, sentence2) ==
    LET inferred_cells == sentence2.cells \ sentence1.cells
        inferred_count == sentence2.count - sentence1.count
        new_sentence   == Sentence(inferred_cells, inferred_count)
    IN  IF /\ sentence1 # sentence2
           /\ sentence1.cells \subseteq sentence2.cells
           /\ inferred_cells # {}
           /\ inferred_count >= 0
        THEN Append(kb, new_sentence)
        ELSE kb

\* The candidate of lines 254-261 for the pair (sentence1, sentence2): the
\* list after the pair has been handled.
InferPair(kb, sentence1, sentence2) ==
    LET inferred_cells == sentence2.cells \ sentence1.cells
        inferred_count == sentence2.count - sentence1.count
        new_sentence   == Sentence(inferred_cells, inferred_count)
    IN  IF /\ sentence1 # sentence2
           /\ sentence1.cells \subseteq sentence2.cells
           /\ inferred_cells # {}
           /\ inferred_count >= 0
           /\ ~InList(new_sentence, kb)
        THEN Append(kb, new_sentence)
        ELSE kb

\* Lines 252-261, the inner loop for the Sentence at position i: the list
\* is iterated by position while it grows, so the Sentences appended during
\* the loop are visited as well.
RECURSIVE InnerLoop(_, _, _)
InnerLoop(kb, i, j) ==
    IF j > Len(kb) THEN kb
    ELSE InnerLoop(InferPair(kb, kb[i], kb[j]), i, j + 1)

\* Lines 251-261, the outer loop, over the same growing list.
RECURSIVE SubsetLoop(_, _)
SubsetLoop(kb, i) ==
    IF i > Len(kb) THEN kb
    ELSE SubsetLoop(InnerLoop(kb, i, 1), i + 1)

SubsetInference(kb) == SubsetLoop(kb, 1)

\* Steps 4 and 5 of add_knowledge (lines 216-261) from the state st: the set
\* of outcomes [st, retained], retained being the list of line 249 (ret0
\* when an exception leaves the function before that line).
InferencePass(st, ret0) ==
    { IF s4.err THEN [st |-> s4, retained |-> ret0]
      ELSE LET new_knowledge == Dedup(Cleanup(s4.knowledge))
           IN  [st |-> [s4 EXCEPT !.knowledge = SubsetInference(new_knowledge)],
                retained |-> new_knowledge]
      : s4 \in TrivialPass({st}, 1, Len(st.knowledge)) }

\* Steps 1 to 3 of add_knowledge (lines 198-212).
Observe(st, cell, count) ==
    LET s1 == [st EXCEPT !.moves_made = @ \cup {cell}]
        s2 == AI_mark_safe(s1, cell)
        new_sentence == Sentence(Neighbors(cell), count)
    IN  [s2 EXCEPT !.knowledge = Append(@, new_sentence)]

\* MinesweeperAI.add_knowledge(cell, count), steps 1 to 3, then the pass.
add_knowledge(st, cell, count, ret0) ==
    InferencePass(Observe(st, cell, count), ret0)

\* make_safe_move without the test on moves_made.
make_safe_move_any_safe(st) ==
    IF st.safes # {} THEN st.safes ELSE {None}

\* MinesweeperAI.make_safe_move: the cells the loop can return (the order
\* in which a set is iterated is not fixed), None when there is none.
make_safe_move(st) ==
    LET found == { cell \in st.safes : cell \notin st.moves_made }
    IN  IF found # {} THEN found ELSE {None}

\* make_random_move without the test on mines.
make_random_move_any_unmoved(st) ==
    LET choices == { c \in Cells : c \notin st.moves_made }
    IN  IF choices # {} THEN choices ELSE {None}

\* MinesweeperAI.make_random_move
make_random_move(st) ==
    LET choices == { c \in Cells : c \notin st.moves_made /\ c \notin st.mines }
    IN  IF choices # {} THEN choices ELSE {None}

----------------------------------------------------------------------------
\* The state machine.

Self == [AIState(moves_made, mines, safes, knowledge) EXCEPT !.err = FALSE]

\* No add_knowledge call is inside its subset-inference loops.
Idle == [i |-> 0, j |-> 0]

Call(name, cell, count, ret, err) ==
    [name |-> name, cell |-> cell, count |-> count, ret |-> ret, err |-> err]

\* Minesweeper.__init__ places the mines; MinesweeperAI.__init__ starts empty.
Init ==
    /\ board \in SUBSET Cells
    /\ moves_made = {}
    /\ mines = {}
    /\ safes = {}
    /\ knowledge = <<>>
    /\ retained = <<>>
    /\ call = Call("init", None, 0, None, FALSE)
    /\ reveals = 0
    /\ hints = 0
    /\ loop = Idle

Install(o) ==
    /\ moves_made' = o.st.moves_made
    /\ mines' = o.st.mines
    /\ safes' = o.st.safes
    /\ knowledge' = o.st.knowledge
    /\ retained' = o.retained

\* The driver reveals a cell that is not a mine and reports its true count.
Reveal(limit) ==
    \E cell \in Cells :
        /\ reveals < limit
        /\ reveals' = reveals + 1
        /\ ~is_mine(board, cell)
        /\ LET count == nearby_mines(board, cell)
           IN  \E o \in add_knowledge(Self, cell, count, retained) :
                  /\ Install(o)
                  /\ call' = Call("add_knowledge", cell, count, None, o.st.err)
        /\ UNCHANGED <<board, hints, loop>>

AddKnowledge == Reveal(MaxReveals)

\* The same in a game with hints, which is kept shorter.
AddKnowledgeHinted == Reveal(MaxHintReveals)

\* add_knowledge as any caller can invoke it: any cell of the board, any
\* count from one below zero to one above the number of neighbours.
AddKnowledgeAny ==
    \E cell \in Cells :
        \E count \in (0 - 1) .. (Cardinality(Neighbors(cell)) + 1) :
            /\ reveals < MaxAnyReveals
            /\ reveals' = reveals + 1
            /\ \E o \in add_knowledge(Self, cell, count, retained) :
                  /\ Install(o)
                  /\ call' = Call("add_knowledge", cell, count, None, o.st.err)
            /\ UNCHANGED <<board, hints, loop>>

MakeSafeMove ==
    /\ \E r \in make_safe_move(Self) :
          call' = Call("make_safe_move", None, 0, r, FALSE)
    /\ UNCHANGED <<board, moves_made, mines, safes, knowledge, retained, reveals, hints, loop>>

MakeRandomMove ==
    /\ \E r \in make_random_move(Self) :
          call' = Call("make_random_move", None, 0, r, FALSE)
    /\ UNCHANGED <<board, moves_made, mines, safes, knowledge, retained, reveals, hints, loop>>

\* A hint injected through the public mark_mine, for any cell of the board.
MarkMine ==
    /\ hints < MaxHints
    /\ \E cell \in Cells :
          /\ Install([st |-> AI_mark_mine(Self, cell), retained |-> retained])
          /\ call' = Call("mark_mine", cell, 0, None, AI_mark_mine(Self, cell).err)
    /\ hints' = hints + 1
    /\ UNCHANGED <<board, reveals, loop>>

\* A hint injected through the public mark_safe.
MarkSafe ==
    /\ hints < MaxHints
    /\ \E cell \in Cells :
          /\ Install([st |-> AI_mark_safe(Self, cell), retained |-> retained])
          /\ call' = Call("mark_safe", cell, 0, None, FALSE)
    /\ hints' = hints + 1
    /\ UNCHANGED <<board, reveals, loop>>

\* The game as the driver plays it: truthful observations and move requests.
Next == AddKnowledge \/ MakeSafeMove \/ MakeRandomMove

Spec == Init /\ [][Next]_vars

\* The same, with hints injected by an external driver.
NextHints == AddKnowledgeHinted \/ MakeSafeMove \/ MakeRandomMove \/ MarkMine \/ MarkSafe

SpecHints == Init /\ [][NextHints]_vars

\* add_knowledge called with counts that no board need agree with.
NextAny == AddKnowledgeAny

SpecAny == Init /\ [][NextAny]_vars

\* The class Sentence on its own: one Sentence object, built by any caller
\* with any cells of the board and a count from zero to the number of
\* cells, held as the only element of knowledge.
InitSentence ==
    /\ board = {}
    /\ moves_made = {}
    /\ mines = {}
    /\ safes = {}
    /\ \E cells \in SUBSET Cells :
          \E count \in 0 .. Cardinality(cells) :
              knowledge = <<Sentence(cells, count)>>
    /\ retained = <<>>
    /\ call = Call("init", None, 0, None, FALSE)
    /\ reveals = 0
    /\ hints = 0
    /\ loop = Idle

\* sentence.mark_mine(cell): the object is updated before the check that
\* raises, so it keeps the update when the call raises.
SentenceMarkMine ==
    /\ \E cell \in Cells :
          /\ knowledge' = <<Sentence_mark_mine(knowledge[1], cell)>>
          /\ call' = Call("Sentence.mark_mine", cell, 0, None,
                          Sentence_mark_mine_raises(knowledge[1], cell))
    /\ UNCHANGED <<board, moves_made, mines, safes, retained, reveals, hints, loop>>

\* sentence.mark_safe(cell)
SentenceMarkSafe ==
    /\ \E cell \in Cells :
          /\ knowledge' = <<Sentence_mark_safe(knowledge[1], cell)>>
          /\ call' = Call("Sentence.mark_safe", cell, 0, None, FALSE)
    /\ UNCHANGED <<board, moves_made, mines, safes, retained, reveals, hints, loop>>

NextSentence == SentenceMarkMine \/ SentenceMarkSafe

SpecSentence == InitSentence /\ [][NextSentence]_vars

\* add_knowledge up to the start of its subset-inference loops: steps 1 to
\* 4, the cleanup and the deduplication (lines 198-249), for a truthful
\* observation.  When step 4 raises the call ends there.
BeginAddKnowledge ==
    \E cell \in Cells :
        /\ loop = Idle
        /\ reveals < MaxStepReveals
        /\ reveals' = reveals + 1
        /\ ~is_mine(board, cell)
        /\ LET count == nearby_mines(board, cell)
               s3 == Observe(Self, cell, count)
           IN  \E s4 \in TrivialPass({s3}, 1, Len(s3.knowledge)) :
                  /\ call' = Call("add_knowledge", cell, count, None, s4.err)
                  /\ IF s4.err
                     THEN /\ Install([st |-> s4, retained |-> retained])
                          /\ loop' = Idle
                     ELSE LET new_knowledge == Dedup(Cleanup(s4.knowledge))
                          IN  /\ Install([st |-> [s4 EXCEPT !.knowledge = new_knowledge],
                                          retained |-> new_knowledge])
                              /\ loop' = [i |-> 1, j |-> 1]
        /\ UNCHANGED <<board, hints>>

\* One iteration of the loops of lines 251-261 over the live list: the
\* pair (knowledge[i], knowledge[j]) is handled, or the inner loop is
\* exhausted and the outer loop advances, or the outer loop is exhausted
\* and add_knowledge returns.
LoopStep ==
    /\ loop # Idle
    /\ Len(knowledge) <= MaxSentences
    /\ IF loop.i > Len(knowledge)
       THEN /\ loop' = Idle
            /\ UNCHANGED knowledge
       ELSE IF loop.j > Len(knowledge)
       THEN /\ loop' = [i |-> loop.i + 1, j |-> 1]
            /\ UNCHANGED knowledge
       ELSE /\ knowledge' = InferPair(knowledge, knowledge[loop.i], knowledge[loop.j])
            /\ loop' = [i |-> loop.i, j |-> loop.j + 1]
    /\ UNCHANGED <<board, moves_made, mines, safes, retained, call, reveals, hints>>

NextSteps == BeginAddKnowledge \/ LoopStep

\* The interpreter keeps executing a loop that has an iteration to make.
SpecSteps == Init /\ [][NextSteps]_vars /\ WF_vars(LoopStep)

----------------------------------------------------------------------------
\* Properties.

Returned == call.name = "add_knowledge" /\ ~call.err

Sentences(kb) == { kb[i] : i \in 1 .. Len(kb) }

\* C1 (soundness): with truthful observations, every cell in mines is a mine
\* of the board and no cell in safes is a mine of the board.
C1Soundness ==
    /\ \A c \in mines : is_mine(board, c)
    /\ \A c \in safes : ~is_mine(board, c)

\* A mine and a safe cell that was never revealed have both been deduced.
C1Witness ==
    /\ Returned
    /\ mines # {}
    /\ safes \ moves_made # {}

\* C2: mines and safes are disjoint after any sequence of add_knowledge,
\* mark_mine and mark_safe calls.
C2Disjoint == mines \cap safes = {}

\* C3: when add_knowledge has returned, no Sentence of the knowledge base
\* has known mines outside mines or known safes outside safes.
C3Fixpoint ==
    Returned =>
        \A s \in Sentences(knowledge) :
            /\ known_mines(s) \subseteq mines
            /\ known_safes(s) \subseteq safes

\* The pairs (A, B) of the subset-rule example: A's cells a proper subset of
\* B's and the difference of the counts the size of the difference.
AllMinesPair(A, B) ==
    /\ A.cells \subseteq B.cells
    /\ A.cells # B.cells
    /\ B.count - A.count = Cardinality(B.cells \ A.cells)

\* C4: when add_knowledge retains such a pair (A, B), then on return the
\* Sentence (B.cells - A.cells, B.count - A.count) is in the knowledge base
\* and every cell of B.cells - A.cells is in mines.
C4SubsetThenMark ==
    Returned =>
        \A A \in Sentences(retained), B \in Sentences(retained) :
            AllMinesPair(A, B) =>
                /\ Sentence(B.cells \ A.cells, B.count - A.count) \in Sentences(knowledge)
                /\ (B.cells \ A.cells) \subseteq mines

\* C5: running steps 4-5 once more after add_knowledge has returned changes
\* neither the set of Sentences nor mines nor safes.
C5Idempotent ==
    Returned =>
        \A o \in InferencePass(Self, retained) :
            /\ ~o.st.err
            /\ Sentences(o.st.knowledge) = Sentences(knowledge)
            /\ o.st.mines = mines
            /\ o.st.safes = safes

\* C6: with truthful observations every Sentence of the knowledge base has
\* 0 <= count <= |cells|.
C6CountRange ==
    \A s \in Sentences(knowledge) :
        0 <= s.count /\ s.count <= Cardinality(s.cells)

\* The subset rule has appended a Sentence that has some but not all of its
\* cells mined.
C6Witness ==
    /\ Returned
    /\ Len(knowledge) > Len(retained)
    /\ \E s \in Sentences(knowledge) \ Sentences(retained) :
          0 < s.count /\ s.count < Cardinality(s.cells)

\* C7: when add_knowledge has returned, no Sentence of the knowledge base
\* contains a cell of mines or of safes.
C7Reduced ==
    Returned =>
        \A s \in Sentences(knowledge) : s.cells \cap (mines \cup safes) = {}

\* C8: when add_knowledge(cell, 0) has returned, every neighbour of cell is
\* in safes and cell is in moves_made and in safes.
C8ZeroCount ==
    (Returned /\ call.count = 0) =>
        /\ Neighbors(call.cell) \subseteq safes
        /\ call.cell \in moves_made
        /\ call.cell \in safes

\* add_knowledge(cell, 0) has returned for a cell that was not the first
\* revealed, while other Sentences were in the knowledge base.
C8Witness ==
    /\ Returned
    /\ call.count = 0
    /\ Cardinality(moves_made) > 1
    /\ Len(knowledge) > 0

\* C9: make_safe_move returns a cell of safes that is not in moves_made,
\* returns None exactly when there is no such cell, and changes nothing.
C9SafeMove ==
    [][call'.name = "make_safe_move" =>
        /\ UNCHANGED <<moves_made, mines, safes, knowledge>>
        /\ call'.ret # None => (call'.ret \in safes /\ call'.ret \notin moves_made)
        /\ call'.ret = None <=> (safes \ moves_made = {})]_vars

\* make_safe_move has returned a cell while some safe cells were revealed.
C9Witness ==
    /\ call.name = "make_safe_move"
    /\ call.ret # None
    /\ safes \cap moves_made # {}
    /\ Cardinality(safes \ moves_made) = 1

\* C10: make_random_move returns a cell of the board that is neither in
\* moves_made nor in mines, returns None exactly when there is no such cell,
\* and changes nothing.
C10RandomMove ==
    [][call'.name = "make_random_move" =>
        /\ UNCHANGED <<moves_made, mines, safes, knowledge>>
        /\ call'.ret # None =>
              (call'.ret \in Cells /\ call'.ret \notin moves_made /\ call'.ret \notin mines)
        /\ call'.ret = None <=> (Cells \subseteq (moves_made \cup mines))]_vars

\* make_random_move has returned None on a board whose cells are all
\* revealed or known mines.
C10Witness ==
    /\ call.name = "make_random_move"
    /\ call.ret = None
    /\ mines # {}
    /\ moves_made # {}


\* C11: with truthful observations, in any order and with repeated reveals,
\* no add_knowledge call raises.
C11NeverFails == call.name = "add_knowledge" => ~call.err

\* A cell has been revealed twice and add_knowledge has marked mines, which
\* is where Sentence.mark_mine could raise.
C11Witness ==
    /\ Returned
    /\ reveals > Cardinality(moves_made)
    /\ mines # {}
    /\ Len(knowledge) > 0


\* C13: across add_knowledge, mark_mine, mark_safe, make_safe_move and
\* make_random_move calls, moves_made, mines and safes only grow.
C13OnlyGrow ==
    [][/\ moves_made \subseteq moves_made'
       /\ mines \subseteq mines'
       /\ safes \subseteq safes']_vars

\* A move has been requested in a game with reveals and hints in which the
\* three sets are all non-empty.
C13Witness ==
    /\ call.name \in {"make_safe_move", "make_random_move"}
    /\ hints > 0
    /\ reveals > 0
    /\ moves_made # {}
    /\ mines # {}
    /\ safes \ moves_made # {}


\* The candidate the subset rule derives from the ordered pair (A, B).
Candidate(A, B) == Sentence(B.cells \ A.cells, B.count - A.count)

NoDuplicates(kb) == \A i \in 1 .. Len(kb), j \in 1 .. Len(kb) : kb[i] = kb[j] => i = j

NoVacuous(kb) == \A i \in 1 .. Len(kb) : kb[i].cells # {}

\* C16 as stated: between public operations (add_knowledge, mark_mine,
\* mark_safe) the knowledge base holds no two equal Sentences and no
\* Sentence without cells.
C16NoDupNoVacuous == NoDuplicates(knowledge) /\ NoVacuous(knowledge)

\* C16 as amended: the same, in the states in which add_knowledge has
\* returned without raising.
C16AfterAddKnowledge == Returned => (NoDuplicates(knowledge) /\ NoVacuous(knowledge))

\* add_knowledge has returned in a game with hints, its cleanup having
\* shortened the list and its subset inference having appended to it.
C16Witness ==
    /\ Returned
    /\ hints > 0
    /\ Len(retained) > 0
    /\ Len(knowledge) > Len(retained)


OutOfRange(cell, count) == count < 0 \/ count > Cardinality(Neighbors(cell))

\* C12: add_knowledge(cell, count) with count below zero or above the
\* number of neighbours of cell raises, and the Sentence with that count is
\* not in the knowledge base.
C12Rejected ==
    (call.name = "add_knowledge" /\ OutOfRange(call.cell, call.count)) =>
        /\ call.err
        /\ Sentence(Neighbors(call.cell), call.count) \notin Sentences(knowledge)


\* C17: Sentence.mark_mine(cell) removes exactly cell and lowers count by
\* one when cell is in cells, raising exactly when count would go below
\* zero, and changes nothing and raises nothing when cell is not in cells,
\* whatever the count; Sentence.mark_safe(cell) removes cell and never
\* changes count.
C17MarkContract ==
    [][LET s == knowledge[1]
           t == knowledge'[1]
           c == call'.cell
       IN  /\ call'.name = "Sentence.mark_mine" =>
                 /\ c \in s.cells =>
                       /\ t = Sentence(s.cells \ {c}, s.count - 1)
                       /\ call'.err <=> (s.count - 1 < 0)
                 /\ c \notin s.cells => (t = s /\ ~call'.err)
           /\ call'.name = "Sentence.mark_safe" =>
                 /\ t = Sentence(s.cells \ {c}, s.count)
                 /\ ~call'.err]_vars


\* C14: every add_knowledge call that enters its subset-inference loops
\* leaves them.
C14Terminates == (loop # Idle) ~> (loop = Idle)

\* The outer loop is visiting a Sentence that the loops themselves appended.
C14Witness ==
    /\ loop # Idle
    /\ Len(knowledge) > Len(retained)
    /\ loop.i > Len(retained)
    /\ loop.i <= Len(knowledge)

====
